---- MODULE Spec2Model ----
(***************************************************************************)
(* A model of the retrieval-augmented answer pipeline of marosmatej/RAG:   *)
(*   - the two chunkers (DocumentProcessor.chunk_text of                   *)
(*     document_processor.py and chunk_text of main_ephemeral.py),         *)
(*   - the two retrievers (VectorStore over a Chroma collection and the    *)
(*     in-memory EphemeralStore),                                          *)
(*   - the request handlers of the two servers (main.py and                *)
(*     main_ephemeral.py): upload, delete, clear, search and query.        *)
(* Texts are sequences of one-character strings.                           *)
(***************************************************************************)
EXTENDS Integers, Sequences, FiniteSets, TLC

VARIABLES
    \* ---- the chunker under execution (one call of chunk_text) ----
    impl,           \* which chunker runs: "DocumentProcessor" or "main_ephemeral"
    input_text,     \* history: the text argument as the caller passed it
    text,           \* the text argument (reassigned by truncation / strip)
    chunk_size,     \* self.chunk_size / chunk_size
    chunk_overlap,  \* self.chunk_overlap / overlap
    text_length,    \* text_length / L
    start,          \* start
    chunk_id,       \* chunk_id / cid
    chunks,         \* chunks, the list being built and returned
    windows,        \* history: the [start, end) window of every loop iteration
    pc,             \* "idle", "call", "loop" or "done"
    \* ---- the server process (main.py or main_ephemeral.py) ----
    server,         \* "main", "main_ephemeral" or "none"
    llm_provider,   \* settings.llm_provider (main.py)
    client,         \* module-level Groq client of main_ephemeral.py: "ready" or "None"
    collection,     \* VectorStore.collection: the set of Chroma records
    documents,      \* EphemeralStore.documents: an insertion-ordered dict
    uploads,        \* the files in settings.uploads_dir (main.py)
    op,             \* history: the last request handled
    pre,            \* history: the store contents before the last request
    resp,           \* the response of the last request
    inflight        \* the requests the event loop is serving concurrently

chunkVars == <<impl, input_text, text, chunk_size, chunk_overlap, text_length, start,
               chunk_id, chunks, windows, pc>>
serverVars == <<server, llm_provider, client, collection, documents, uploads, op, pre, resp,
                inflight>>
vars == <<chunkVars, serverVars>>

-----------------------------------------------------------------------------
(* Bounds of the model.                                                    *)

MaxShortLen == 4     \* short texts have 0..MaxShortLen characters
MaxChunkSize == 3    \* chunk sizes tried on short texts: 1..MaxChunkSize
MaxIter == 6         \* loop iterations explored per chunk_text call
MaxChunks == 2       \* chunks per uploaded document: 0..MaxChunks
MaxTopK == 2         \* top_k values tried on search: 1..MaxTopK
MaxRequests == 2     \* requests served concurrently

(* Program constants.                                                      *)
max_text_length == 1000000   \* document_processor.py:98
MinBoundaryLen == 50         \* document_processor.py:114, len(chunk_text) > 50

-----------------------------------------------------------------------------
(* Python string primitives, on sequences of characters.                   *)

Min(a, b) == IF a < b THEN a ELSE b
Max(a, b) == IF a > b THEN a ELSE b

\* the characters str.strip() and str.split() treat as whitespace
Whitespace == {" ", "\n", "\t"}

\* s[i:j] with Python's treatment of negative and out-of-range indices
PySlice(s, i, j) ==
    LET n  == Len(s)
        lo == IF i < 0 THEN Max(i + n, 0) ELSE Min(i, n)
        hi == IF j < 0 THEN Max(j + n, 0) ELSE Min(j, n)
    IN  IF lo >= hi THEN <<>> ELSE SubSeq(s, lo + 1, hi)

\* s.strip()
Strip(s) ==
    LET keep == {i \in 1..Len(s) : s[i] \notin Whitespace}
    IN  IF keep = {} THEN <<>>
        ELSE LET first == CHOOSE i \in keep : \A k \in keep : i <= k
                 last  == CHOOSE i \in keep : \A k \in keep : i >= k
             IN  SubSeq(s, first, last)

\* s.rfind(d): the highest 0-based index at which d occurs in s, or -1
RFind(s, d) ==
    LET at == {i \in 0..(Len(s) - Len(d)) : SubSeq(s, i + 1, i + Len(d)) = d}
    IN  IF at = {} THEN -1 ELSE CHOOSE i \in at : \A k \in at : i >= k

-----------------------------------------------------------------------------
(* DocumentProcessor.chunk_text (document_processor.py:77-140).            *)

\* the sentence endings, in the order the for loop tries them
Delimiters == << <<".", " ">>, <<".", "\n">>, <<"!", " ">>, <<"?", "\n">> >>

\* last_delimiter != -1 and last_delimiter > len(chunk_text) * 0.5
DelimiterQualifies(ct, d) ==
    RFind(ct, d) # -1 /\ 2 * RFind(ct, d) > Len(ct)

\* The for loop over the delimiters: the window end after the first delimiter
\* (in list order) that qualifies, or the unchanged end when none does.
BoundaryEnd(ct, st, end) ==
    LET hit == {k \in 1..Len(Delimiters) : DelimiterQualifies(ct, Delimiters[k])}
    IN  IF hit = {} THEN end
        ELSE LET k == CHOOSE k \in hit : \A m \in hit : k <= m
             IN  st + RFind(ct, Delimiters[k]) + Len(Delimiters[k])

\* end of the window that starts at st: lines 105-121
DPWindowEnd(txt, len, st, size) ==
    LET end0 == IF st + size > len THEN len ELSE st + size
        ct0  == PySlice(txt, st, end0)
    IN  IF end0 < len /\ Len(ct0) > MinBoundaryLen
        THEN BoundaryEnd(ct0, st, end0)
        ELSE end0

\* start = end - self.chunk_overlap: line 134
DPNextStart(end, overlap) == end - overlap

\* a blank test that only recognises the empty string: differs from line 88
IsBlank_EmptyOnly(t) == Len(t) = 0

\* not text or len(text.strip()) == 0: line 88
IsBlank(t) == Len(t) = 0 \/ Len(Strip(t)) = 0

\* a counter that advances for every window, emitted or not: differs from
\* lines 124-131
NextChunkId_PerWindow(stripped, cid) == cid + 1

\* chunk_id += 1 inside `if chunk_text.strip():` (lines 124-131); the same
\* for cid in main_ephemeral.py:85-87
NextChunkId(stripped, cid) == IF Len(stripped) > 0 THEN cid + 1 ELSE cid

\* lines 87-102: the empty-text return, the truncation, the loop variables
DPChunkText ==
    /\ pc = "call"
    /\ impl = "DocumentProcessor"
    /\ IF IsBlank(text)
       THEN /\ pc' = "done"
            /\ UNCHANGED <<text, text_length>>
       ELSE /\ pc' = "loop"
            /\ text' = IF Len(text) > max_text_length
                       THEN PySlice(text, 0, max_text_length) ELSE text
            /\ text_length' = IF Len(text) > max_text_length
                              THEN max_text_length ELSE Len(text)
    /\ chunks' = <<>>
    /\ start' = 0
    /\ chunk_id' = 0
    /\ UNCHANGED <<impl, input_text, chunk_size, chunk_overlap, windows, serverVars>>

\* one pass of `while start < text_length` (lines 104-138), or its exit
DPLoop ==
    /\ pc = "loop"
    /\ impl = "DocumentProcessor"
    /\ Len(windows) < MaxIter
    /\ IF start < text_length
       THEN LET end == DPWindowEnd(text, text_length, start, chunk_size)
                ct  == PySlice(text, start, end)
                nxt == DPNextStart(end, chunk_overlap)
            IN  /\ windows' = Append(windows, [start |-> start, end |-> end])
                /\ chunks' = IF Len(Strip(ct)) > 0
                             THEN Append(chunks,
                                    [text |-> Strip(ct), chunk_id |-> chunk_id,
                                     start_char |-> start, end_char |-> end])
                             ELSE chunks
                /\ chunk_id' = NextChunkId(Strip(ct), chunk_id)
                /\ start' = nxt
                /\ pc' = IF nxt >= text_length THEN "done" ELSE "loop"
       ELSE /\ pc' = "done"
            /\ UNCHANGED <<windows, chunks, chunk_id, start>>
    /\ UNCHANGED <<impl, input_text, text, text_length, chunk_size, chunk_overlap, serverVars>>

-----------------------------------------------------------------------------
(* chunk_text of main_ephemeral.py (lines 72-91).                          *)

\* start = max(end - overlap, end): line 88
EphNextStart(end, overlap) == Max(end - overlap, end)

\* lines 73-79: strip, the empty-text return, the loop variables
EphChunkText ==
    /\ pc = "call"
    /\ impl = "main_ephemeral"
    /\ text' = Strip(text)
    /\ IF Len(Strip(text)) = 0
       THEN /\ pc' = "done"
            /\ UNCHANGED text_length
       ELSE /\ pc' = "loop"
            /\ text_length' = Len(Strip(text))
    /\ chunks' = <<>>
    /\ start' = 0
    /\ chunk_id' = 0
    /\ UNCHANGED <<impl, input_text, chunk_size, chunk_overlap, windows, serverVars>>

\* one pass of `while start < L` (lines 80-90), or its exit
EphLoop ==
    /\ pc = "loop"
    /\ impl = "main_ephemeral"
    /\ Len(windows) < MaxIter
    /\ IF start < text_length
       THEN LET end == IF start + chunk_size > text_length
                       THEN text_length ELSE start + chunk_size
                chunk == Strip(PySlice(text, start, end))
                nxt == EphNextStart(end, chunk_overlap)
            IN  /\ windows' = Append(windows, [start |-> start, end |-> end])
                /\ chunks' = IF Len(chunk) > 0
                             THEN Append(chunks,
                                    [text |-> chunk, chunk_id |-> chunk_id,
                                     start_char |-> start, end_char |-> end])
                             ELSE chunks
                /\ chunk_id' = NextChunkId(chunk, chunk_id)
                /\ start' = nxt
                /\ pc' = IF nxt >= text_length THEN "done" ELSE "loop"
       ELSE /\ pc' = "done"
            /\ UNCHANGED <<windows, chunks, chunk_id, start>>
    /\ UNCHANGED <<impl, input_text, text, text_length, chunk_size, chunk_overlap, serverVars>>

-----------------------------------------------------------------------------
(* The inputs of a chunk_text call.                                        *)

ShortAlphabet == {"a", "b", " "}
ShortTexts == UNION {[1..n -> ShortAlphabet] : n \in 0..MaxShortLen}

\* Long texts exercise the sentence-boundary search, which needs a window of
\* more than MinBoundaryLen characters: a run of "a" with up to two sentence
\* endings written at chosen 0-based positions.
LongLens == {MinBoundaryLen + 3, MinBoundaryLen + 10}
LongChunkSizes == {MinBoundaryLen + 1, MinBoundaryLen + 2}
LongOverlaps == {0, 10, 45}
DelimPositions == {10, 30, 40}
Marks == {<<p, k>> : p \in DelimPositions, k \in 1..Len(Delimiters)}
MarkSets == {ms \in SUBSET Marks :
                /\ Cardinality(ms) <= 2
                /\ \A m1, m2 \in ms : m1[1] = m2[1] => m1 = m2}
LongText(len, marks) ==
    [i \in 1..len |->
        IF \E m \in marks : i - 1 = m[1] THEN
            Delimiters[(CHOOSE m \in marks : i - 1 = m[1])[2]][1]
        ELSE IF \E m \in marks : i - 2 = m[1] THEN
            Delimiters[(CHOOSE m \in marks : i - 2 = m[1])[2]][2]
        ELSE "a"]
LongTexts == {LongText(n, ms) : n \in LongLens, ms \in MarkSets}

\* the server side is not running while a chunker is examined on its own
ServerIdle ==
    /\ server = "none"
    /\ llm_provider = "none"
    /\ client = "None"
    /\ collection = {}
    /\ documents = <<>>
    /\ uploads = {}
    /\ op = [name |-> "none"]
    /\ pre = <<>>
    /\ resp = [status |-> 0]
    /\ inflight = <<>>

InitChunk ==
    /\ impl \in {"DocumentProcessor", "main_ephemeral"}
    /\ \/ /\ text \in ShortTexts
          /\ chunk_size \in 1..MaxChunkSize
          /\ chunk_overlap \in 0..(chunk_size - 1)
       \/ /\ text \in LongTexts
          /\ chunk_size \in LongChunkSizes
          /\ chunk_overlap \in LongOverlaps
    /\ input_text = text
    /\ text_length = 0
    /\ start = 0
    /\ chunk_id = 0
    /\ chunks = <<>>
    /\ windows = <<>>
    /\ pc = "call"
    /\ ServerIdle

NextChunk == DPChunkText \/ DPLoop \/ EphChunkText \/ EphLoop

SpecChunk == InitChunk /\ [][NextChunk]_vars

-----------------------------------------------------------------------------
(* Filenames and their order. A filename is a sequence of characters;      *)
(* sorted() compares strings by code point, character by character.        *)

CodePoint(c) ==
    CASE c = "." -> 46 [] c = "A" -> 65 [] c = "B" -> 66 [] c = "_" -> 95
      [] c = "a" -> 97 [] c = "b" -> 98 [] c = "c" -> 99 [] c = "d" -> 100
      [] c = "f" -> 102 [] c = "m" -> 109 [] c = "p" -> 112 [] c = "t" -> 116
      [] c = "x" -> 120 [] OTHER -> 0

RECURSIVE StrLess(_, _)
\* s < t on Python strings
StrLess(s, t) ==
    IF t = <<>> THEN FALSE
    ELSE IF s = <<>> THEN TRUE
    ELSE IF Head(s) # Head(t) THEN CodePoint(Head(s)) < CodePoint(Head(t))
    ELSE StrLess(Tail(s), Tail(t))

RECURSIVE Sorted(_)
\* sorted(list(S)) for a set S of strings
Sorted(S) ==
    IF S = {} THEN <<>>
    ELSE LET m == CHOOSE x \in S : \A y \in S \ {x} : StrLess(x, y)
         IN  <<m>> \o Sorted(S \ {m})

\* c.lower() for one character
LowerChar(c) == CASE c = "A" -> "a" [] c = "B" -> "b" [] OTHER -> c

\* s.lower()
Lower(s) == [i \in DOMAIN s |-> LowerChar(s[i])]

\* Path(filename).suffix.lower(): from the last dot to the end
Suffix(f) ==
    LET dots == {i \in 2..Len(f) : f[i] = "."}
    IN  IF dots = {} \/ f[Len(f)] = "." THEN <<>>
        ELSE Lower(SubSeq(f, CHOOSE i \in dots : \A k \in dots : i >= k, Len(f)))

\* a set of extensions that also admits '.md': differs from line 141
allowed_extensions_WithMd ==
    { <<".", "p", "d", "f">>, <<".", "t", "x", "t">>, <<".", "d", "o", "c", "x">>,
      <<".", "m", "d">> }

\* {'.pdf', '.txt', '.docx'}
allowed_extensions ==
    { <<".", "p", "d", "f">>, <<".", "t", "x", "t">>, <<".", "d", "o", "c", "x">> }

Filenames == { <<"b", ".", "t", "x", "t">>, <<"a", "b", ".", "p", "d", "f">> }
BadFilenames == { <<"c", ".", "m", "d">> }

-----------------------------------------------------------------------------
(* The chunk lists an upload hands to add_documents: what process_document *)
(* or chunk_text returned, ids dense from 0, texts trimmed and non-empty.  *)

TextPool == { <<"A", " ", "b">>, <<"b">> }

ChunkOf(i, t) ==
    [text |-> t, chunk_id |-> i - 1, start_char |-> i - 1, end_char |-> i - 1 + Len(t)]

ChunkLists ==
    UNION { { [i \in 1..n |-> ChunkOf(i, ts[i])] : ts \in [1..n -> TextPool] }
            : n \in 0..MaxChunks }

-----------------------------------------------------------------------------
(* VectorStore (vector_store.py) over a Chroma collection: a set of        *)
(* records with unique ids.                                                *)

\* f"{filename}_{chunk['chunk_id']}"
ChunkKey(filename, cid) == filename \o <<"_">> \o <<ToString(cid)>>

\* the ids, documents and metadatas add_documents builds: lines 72-87
VecRecords(chks, filename) ==
    { [id |-> ChunkKey(filename, chks[i].chunk_id),
       document |-> chks[i].text,
       metadata |-> [filename |-> filename, chunk_id |-> chks[i].chunk_id,
                     start_char |-> chks[i].start_char,
                     end_char |-> chks[i].end_char]] : i \in DOMAIN chks }

Ids(c) == {r.id : r \in c}

\* collection.add(ids, embeddings, documents, metadatas) of a Chroma
\* PersistentClient: an empty batch is refused with an error; a record whose
\* id is already stored is skipped (Chroma logs "Insert of existing embedding
\* ID" and keeps the stored record), the others are inserted.
CollectionAdd(c, recs) ==
    IF recs = {} THEN [raised |-> TRUE, collection |-> c]
    ELSE [raised |-> FALSE,
          collection |-> c \cup {r \in recs : r.id \notin Ids(c)}]

\* VectorStore.add_documents: lines 64-95
VecAddDocuments(c, chks, filename) ==
    CollectionAdd(c, VecRecords(chks, filename))

\* collection.get(where={"filename": filename})
CollectionGetWhere(c, filename) == {r \in c : r.metadata.filename = filename}

\* VectorStore.delete_document deleting one id, f"{filename}_0", instead of
\* every id the where-query returned
VecDeleteDocument_FirstIdOnly(c, filename) ==
    [raised |-> FALSE, collection |-> {r \in c : r.id # ChunkKey(filename, 0)}]

\* VectorStore.delete_document: lines 129-142
VecDeleteDocument(c, filename) ==
    LET results == CollectionGetWhere(c, filename)
    IN  IF Ids(results) # {}
        THEN [raised |-> FALSE, collection |-> {r \in c : r.id \notin Ids(results)}]
        ELSE [raised |-> FALSE, collection |-> c]

\* VectorStore.list_documents: lines 144-159
VecListDocuments(c) ==
    IF c = {} THEN <<>>
    ELSE Sorted({r.metadata.filename : r \in c})

\* VectorStore.get_collection_stats: lines 161-175
VecStats(c) ==
    [total_chunks |-> Cardinality(c),
     total_documents |-> Len(VecListDocuments(c)),
     documents |-> VecListDocuments(c)]

-----------------------------------------------------------------------------
(* EphemeralStore (ephemeral_store.py): self.documents is a dict, which    *)
(* keeps its keys in insertion order; modelled as a sequence of entries.   *)

Keys(d) == {d[i].filename : i \in DOMAIN d}

\* d[filename]
DictGet(d, filename) == d[CHOOSE i \in DOMAIN d : d[i].filename = filename].chunks

\* d[filename] = chks: an existing key keeps its place, a new one goes last
DictSet(d, filename, chks) ==
    IF filename \in Keys(d)
    THEN [i \in DOMAIN d |->
            IF d[i].filename = filename
            THEN [filename |-> filename, chunks |-> chks] ELSE d[i]]
    ELSE Append(d, [filename |-> filename, chunks |-> chks])

\* del d[filename], for a key that is present
DictDel(d, filename) ==
    LET k == CHOOSE i \in DOMAIN d : d[i].filename = filename
    IN  SubSeq(d, 1, k - 1) \o SubSeq(d, k + 1, Len(d))

\* EphemeralStore.add_documents: lines 14-16
EphAddDocuments(d, chks, filename) == DictSet(d, filename, chks)

\* EphemeralStore.delete_document without its `if filename in self.documents`
\* guard: `del` raises KeyError for a missing key
EphDeleteDocument_NoGuard(d, filename) ==
    IF filename \in Keys(d)
    THEN [raised |-> FALSE, documents |-> DictDel(d, filename)]
    ELSE [raised |-> TRUE, documents |-> d]

\* EphemeralStore.delete_document: lines 50-52
EphDeleteDocument(d, filename) ==
    IF filename \in Keys(d)
    THEN [raised |-> FALSE, documents |-> DictDel(d, filename)]
    ELSE [raised |-> FALSE, documents |-> d]

\* EphemeralStore.list_documents: lines 47-48
EphListDocuments(d) == [i \in DOMAIN d |-> d[i].filename]

RECURSIVE SumChunks(_)
SumChunks(d) == IF d = <<>> THEN 0 ELSE Len(Head(d).chunks) + SumChunks(Tail(d))

\* EphemeralStore.stats: lines 57-59
EphStats(d) == [total_documents |-> Len(d), total_chunks |-> SumChunks(d)]

-----------------------------------------------------------------------------
(* EphemeralStore.search (ephemeral_store.py:18-45).                       *)

\* set(s.split()): the maximal runs of non-whitespace characters
Words(s) ==
    { SubSeq(s, i, j) : <<i, j>> \in
        { w \in (1..Len(s)) \X (1..Len(s)) :
            /\ w[1] <= w[2]
            /\ \A k \in w[1]..w[2] : s[k] \notin Whitespace
            /\ (w[1] = 1 \/ s[w[1] - 1] \in Whitespace)
            /\ (w[2] = Len(s) \/ s[w[2] + 1] \in Whitespace) } }

\* q in t
Contains(t, q) ==
    \E i \in 0..(Len(t) - Len(q)) : SubSeq(t, i + 1, i + Len(q)) = q

\* lines 30-36: the score of one chunk text against the lower-cased query
Score(q, q_words, txt) ==
    LET t == Lower(txt)
    IN  (IF Contains(t, q) THEN 10 ELSE 0) + Cardinality(q_words \cap Words(t))

RECURSIVE ScoredChunks(_, _, _, _)
\* lines 28-42 for the chunks of one document
ScoredChunks(fname, chks, q, q_words) ==
    IF chks = <<>> THEN <<>>
    ELSE LET chunk == Head(chks)
             score == Score(q, q_words, chunk.text)
             rest  == ScoredChunks(fname, Tail(chks), q, q_words)
         IN  IF score > 0
             THEN <<[text |-> chunk.text,
                     metadata |-> [filename |-> fname, chunk_id |-> chunk.chunk_id],
                     score |-> score]>> \o rest
             ELSE rest

RECURSIVE ScoredAll(_, _, _)
\* lines 26-42: `for fname, chunks in self.documents.items()`
ScoredAll(d, q, q_words) ==
    IF d = <<>> THEN <<>>
    ELSE ScoredChunks(Head(d).filename, Head(d).chunks, q, q_words)
            \o ScoredAll(Tail(d), q, q_words)

\* an unstable descending sort: x goes behind the entries of equal score
InsertByScore_Unstable(x, sorted) ==
    LET lower == {i \in DOMAIN sorted : sorted[i].score < x.score}
        k == IF lower = {} THEN Len(sorted) + 1
             ELSE CHOOSE i \in lower : \A m \in lower : i <= m
    IN  SubSeq(sorted, 1, k - 1) \o <<x>> \o SubSeq(sorted, k, Len(sorted))

\* x takes its place in a list already sorted by descending score: before the
\* first entry whose score is not higher, so that it stays ahead of the later
\* entries of equal score (list.sort is stable, also with reverse=True)
InsertByScore(x, sorted) ==
    LET notHigher == {i \in DOMAIN sorted : sorted[i].score <= x.score}
        k == IF notHigher = {} THEN Len(sorted) + 1
             ELSE CHOOSE i \in notHigher : \A m \in notHigher : i <= m
    IN  SubSeq(sorted, 1, k - 1) \o <<x>> \o SubSeq(sorted, k, Len(sorted))

RECURSIVE SortByScoreDesc(_)
\* scored.sort(key=lambda x: x["score"], reverse=True): line 44
SortByScoreDesc(scored) ==
    IF scored = <<>> THEN <<>>
    ELSE InsertByScore(Head(scored), SortByScoreDesc(Tail(scored)))

\* EphemeralStore.search
EphSearch(d, query, top_k) ==
    IF d = <<>> THEN <<>>
    ELSE LET q == Lower(query)
             q_words == Words(q)
         IN  PySlice(SortByScoreDesc(ScoredAll(d, q, q_words)), 0, top_k)

Queries == { <<"a", " ", "b">>, <<"B">>, <<"b", " ", "a">>, <<"c">> }

-----------------------------------------------------------------------------
(* The request handlers that change or read the store.                     *)

\* no chunk_text call is in progress while the server is examined
ChunkIdle ==
    /\ impl = "none"
    /\ input_text = <<>>
    /\ text = <<>>
    /\ chunk_size = 0
    /\ chunk_overlap = 0
    /\ text_length = 0
    /\ start = 0
    /\ chunk_id = 0
    /\ chunks = <<>>
    /\ windows = <<>>
    /\ pc = "idle"

\* the store of the running server
Store == IF server = "main" THEN collection ELSE documents

\* what happens to an uploaded file before the store is reached: its text is
\* extracted and chunked into a chunk list (ok), or that raises
Processed ==
    {[ok |-> TRUE, chunks |-> c] : c \in ChunkLists} \cup {[ok |-> FALSE, chunks |-> <<>>]}

\* main.upload_document: main.py:129-184. `res` is the outcome of
\* process_document for the file.
UploadMain(f, res) ==
    /\ server = "main"
    /\ pre' = Store
    /\ op' = [name |-> "upload", filename |-> f, chunks |-> res.chunks,
              processed |-> Suffix(f) \in allowed_extensions,
              added |-> Suffix(f) \in allowed_extensions /\ res.ok]
    /\ IF Suffix(f) \notin allowed_extensions
       THEN /\ resp' = [status |-> 400]
            /\ UNCHANGED <<collection, uploads>>
       ELSE IF ~res.ok
       THEN /\ resp' = [status |-> 500]
            /\ uploads' = uploads \ {f}
            /\ UNCHANGED collection
       ELSE LET r == VecAddDocuments(collection, res.chunks, f)
            IN  /\ collection' = r.collection
                /\ IF r.raised
                   THEN /\ resp' = [status |-> 500]
                        /\ uploads' = uploads \ {f}
                   ELSE /\ resp' = [status |-> 200, filename |-> f,
                                     chunks |-> Len(res.chunks)]
                        /\ uploads' = uploads \cup {f}
    /\ UNCHANGED <<server, llm_provider, client, documents, chunkVars, inflight>>

\* main_ephemeral.upload_document: main_ephemeral.py:133-146. `res` is the
\* outcome of extracting the text and chunking it.
UploadEph(f, res) ==
    /\ server = "main_ephemeral"
    /\ pre' = Store
    /\ op' = [name |-> "upload", filename |-> f, chunks |-> res.chunks,
              processed |-> Suffix(f) \in allowed_extensions,
              added |-> Suffix(f) \in allowed_extensions /\ res.ok]
    /\ IF Suffix(f) \notin allowed_extensions \/ ~res.ok
       THEN /\ resp' = [status |-> 400]
            /\ UNCHANGED documents
       ELSE /\ documents' = EphAddDocuments(documents, res.chunks, f)
            /\ resp' = [status |-> 200, filename |-> f, chunks |-> Len(res.chunks)]
    /\ UNCHANGED <<server, llm_provider, client, collection, uploads, chunkVars, inflight>>

\* main.delete_document: main.py:248-270
DeleteMain(f) ==
    /\ server = "main"
    /\ pre' = Store
    /\ op' = [name |-> "delete", filename |-> f]
    /\ LET r == VecDeleteDocument(collection, f)
       IN  /\ collection' = r.collection
           /\ IF r.raised
              THEN /\ resp' = [status |-> 500]
                   /\ UNCHANGED uploads
              ELSE /\ resp' = [status |-> 200]
                   /\ uploads' = uploads \ {f}
    /\ UNCHANGED <<server, llm_provider, client, documents, chunkVars, inflight>>

\* main_ephemeral.delete_doc: main_ephemeral.py:177-183
DeleteEph(f) ==
    /\ server = "main_ephemeral"
    /\ pre' = Store
    /\ op' = [name |-> "delete", filename |-> f]
    /\ LET r == EphDeleteDocument(documents, f)
       IN  /\ documents' = r.documents
           /\ resp' = [status |-> IF r.raised THEN 500 ELSE 200]
    /\ UNCHANGED <<server, llm_provider, client, collection, uploads, chunkVars, inflight>>

\* main_ephemeral.clear: main_ephemeral.py:201-204, EphemeralStore.clear
ClearEph ==
    /\ server = "main_ephemeral"
    /\ pre' = Store
    /\ op' = [name |-> "clear"]
    /\ documents' = <<>>
    /\ resp' = [status |-> 200]
    /\ UNCHANGED <<server, llm_provider, client, collection, uploads, chunkVars, inflight>>

\* a call of store.search(query, top_k) on the EphemeralStore
SearchEph(q, k) ==
    /\ server = "main_ephemeral"
    /\ pre' = Store
    /\ op' = [name |-> "search", query |-> q, top_k |-> k]
    /\ resp' = [status |-> 200, hits |-> EphSearch(documents, q, k)]
    /\ UNCHANGED <<server, llm_provider, client, collection, documents, uploads, chunkVars, inflight>>

Init ==
    /\ ChunkIdle
    /\ server \in {"main", "main_ephemeral"}
    /\ llm_provider = "groq"
    /\ client = "ready"
    /\ collection = {}
    /\ documents = <<>>
    /\ uploads = {}
    /\ op = [name |-> "none"]
    /\ pre = Store
    /\ resp = [status |-> 0]
    /\ inflight = <<>>

Next ==
    \/ \E f \in Filenames, res \in Processed : UploadMain(f, res)
    \/ \E f \in BadFilenames : UploadMain(f, [ok |-> TRUE, chunks |-> <<>>])
    \/ \E f \in Filenames, res \in Processed : UploadEph(f, res)
    \/ \E f \in BadFilenames : UploadEph(f, [ok |-> TRUE, chunks |-> <<>>])
    \/ \E f \in Filenames : DeleteMain(f)
    \/ \E f \in Filenames : DeleteEph(f)
    \/ ClearEph
    \/ \E q \in Queries, k \in 1..MaxTopK : SearchEph(q, k)

Spec == Init /\ [][Next]_vars

-----------------------------------------------------------------------------
(* Claims about the chunkers, checked under SpecChunk.                     *)

ValidParams == chunk_size > 0 /\ 0 <= chunk_overlap /\ chunk_overlap < chunk_size

\* C1: chunking terminates. The loop body is a function of `start` alone (the
\* text and the parameters are fixed during the loop), so the loop reaches
\* start >= text_length after finitely many passes exactly when no pass begins
\* at a start value an earlier pass began at.
C1_ChunkingTerminates ==
    ValidParams =>
        \A i, j \in DOMAIN windows : i < j => windows[i].start # windows[j].start

\* C4: a non-whitespace text no longer than chunk_size yields exactly one
\* chunk, the whole text trimmed: never a second chunk, and on return the one.
C4_OneChunkForShortText ==
    (ValidParams /\ Len(Strip(input_text)) > 0 /\ Len(input_text) <= chunk_size) =>
        /\ Len(chunks) <= 1
        /\ pc = "done" =>
              /\ Len(chunks) = 1
              /\ chunks[1].text = Strip(input_text)

\* C5: every emitted chunk has 0 <= start_char < end_char <= length of the
\* (possibly truncated) text being chunked.
C5_ChunkBounds ==
    ValidParams =>
        \A i \in DOMAIN chunks :
            /\ 0 <= chunks[i].start_char
            /\ chunks[i].start_char < chunks[i].end_char
            /\ chunks[i].end_char <= text_length

\* C6: forward progress: every window starts strictly after the previous
\* window's start, so emitted chunks have strictly increasing start_char.
C6_ForwardProgress ==
    ValidParams =>
        /\ \A i \in DOMAIN windows :
              i > 1 => windows[i].start > windows[i - 1].start
        /\ \A i \in DOMAIN chunks :
              i > 1 => chunks[i].start_char > chunks[i - 1].start_char

\* The same four statements restricted to chunk_text of main_ephemeral.py.
EphChunkerSound ==
    impl = "main_ephemeral" =>
        C1_ChunkingTerminates /\ C4_OneChunkForShortText /\ C5_ChunkBounds /\ C6_ForwardProgress

\* C16: the chunk_id values of the emitted chunks are exactly 0, 1, ..., n-1
\* in emission order: a window that is empty after trimming is discarded
\* without consuming an id.
C16_DenseChunkIds ==
    /\ \A i \in DOMAIN chunks : chunks[i].chunk_id = i - 1
    /\ pc \in {"loop", "done"} => chunk_id = Len(chunks)

\* the window w of the text holds nothing but whitespace
BlankWindow(w) == Strip(PySlice(text, w.start, w.end)) = <<>>

\* a finished call that discarded a blank window between two emitted chunks
C16_Witness ==
    /\ pc = "done"
    /\ Len(chunks) >= 2
    /\ \E k \in DOMAIN windows :
          /\ BlankWindow(windows[k])
          /\ chunks[1].start_char < windows[k].start
          /\ windows[k].start < chunks[Len(chunks)].start_char

\* C17: chunking an empty or whitespace-only text returns an empty chunk
\* sequence without entering the window loop, for every chunk_size and
\* overlap.
C17_BlankTextYieldsNoChunks ==
    (Strip(input_text) = <<>> /\ pc # "call") =>
        /\ pc = "done"
        /\ chunks = <<>>
        /\ windows = <<>>

\* a whitespace-only text, chunked with an overlap, has returned
C17_Witness ==
    /\ pc = "done"
    /\ Len(input_text) >= 2
    /\ Strip(input_text) = <<>>
    /\ chunk_overlap > 0
    /\ chunks = <<>>

\* the end the sentence-boundary rule of the claim gives a window that starts
\* at st and does not reach the end of the text: right after the right-most
\* delimiter, among all four, found past the middle of the window; the full
\* window when there is none
RightMostBoundaryEnd(txt, st, size) ==
    LET w   == PySlice(txt, st, st + size)
        occ == {p \in 0..(Len(w) - 2) :
                   /\ 2 * p > Len(w)
                   /\ \E k \in DOMAIN Delimiters : SubSeq(w, p + 1, p + 2) = Delimiters[k]}
    IN  IF occ = {} THEN st + size
        ELSE st + (CHOOSE p \in occ : \A r \in occ : p >= r) + 2

\* C18: a window of DocumentProcessor.chunk_text that does not reach the end
\* of the text ends right after the right-most sentence delimiter found past
\* 50% of the window, whichever of the four it is, and keeps its full
\* chunk_size length when there is none; so it is longer than half of
\* chunk_size. Stated for windows of more than 50 characters.
C18_SentenceBoundary ==
    (impl = "DocumentProcessor" /\ chunk_size > MinBoundaryLen) =>
        \A i \in DOMAIN windows :
            (windows[i].start >= 0 /\ windows[i].start + chunk_size < text_length) =>
                /\ windows[i].end =
                      RightMostBoundaryEnd(text, windows[i].start, chunk_size)
                /\ 2 * (windows[i].end - windows[i].start) > chunk_size

\* C19: every window after the first starts at the previous window's end
\* minus the overlap, in both chunkers, so that with overlap > 0 consecutive
\* windows share the last `overlap` characters of the earlier one.
C19_OverlapPolicy ==
    ValidParams =>
        \A i \in DOMAIN windows :
            i > 1 => windows[i].start = windows[i - 1].end - chunk_overlap

\* C19 restricted to DocumentProcessor.chunk_text
C19_DPOverlapPolicy == impl = "DocumentProcessor" => C19_OverlapPolicy

-----------------------------------------------------------------------------
(* The query path: RAGPipeline (rag_pipeline.py) behind main.query_documents *)
(* and the query handler of main_ephemeral.py.                             *)

Providers == {"ollama", "openai", "groq"}

\* what the completion backend does when it is called
BackendOutcomes == {"ok", "network_error", "timeout", "client_unusable", "bad_response"}

\* str(e) of the exception an outcome raises
ErrorText(outcome) ==
    CASE outcome = "network_error" -> "Connection refused"
      [] outcome = "timeout" -> "Request timed out"
      [] outcome = "client_unusable" -> "The api_key client option must be set"
      [] OTHER -> "'response'"

\* VectorStore.search (vector_store.py:97-127): the top_k nearest records by
\* cosine distance of the embeddings. The embedding is opaque, so any order
\* of any min(top_k, count) distinct records is a possible result; `distance`
\* carries the rank.
VecSearch(c, top_k) ==
    LET n == Min(top_k, Cardinality(c))
    IN  { [i \in 1..n |-> [text |-> pick[i].document,
                           metadata |-> pick[i].metadata,
                           distance |-> i]] :
            pick \in {f \in [1..n -> c] : \A i, j \in 1..n : i # j => f[i] # f[j]} }

\* a context block labelled with the 0-based index: differs from line 72
ContextBlock_ZeroBased(i, doc) ==
    <<"[Source ", ToString(i - 1), " from ">> \o doc.metadata.filename
        \o <<"]:", "\n">> \o doc.text

\* f"[Source {i} from {filename}]:\n{text}": one block of the context
ContextBlock(i, doc) ==
    <<"[Source ", ToString(i), " from ">> \o doc.metadata.filename
        \o <<"]:", "\n">> \o doc.text

RECURSIVE JoinBlocks(_, _)
\* "\n\n".join(parts) for the blocks of docs[k..]
JoinBlocks(docs, k) ==
    IF k > Len(docs) THEN <<>>
    ELSE IF k = Len(docs) THEN ContextBlock(k, docs[k])
    ELSE ContextBlock(k, docs[k]) \o <<"\n", "\n">> \o JoinBlocks(docs, k + 1)

\* RAGPipeline._prepare_context: rag_pipeline.py:60-74; the same expression
\* in main_ephemeral.py:161
PrepareContext(retrieved_docs) == JoinBlocks(retrieved_docs, 1)

\* doc['text'][:200] + '...' if len(doc['text']) > 200 else doc['text']
SourceText(t) ==
    IF Len(t) > 200 THEN PySlice(t, 0, 200) \o <<".", ".", ".">> ELSE t

\* the sources list: rag_pipeline.py:46-53, main_ephemeral.py:173
FormatSources(docs) ==
    [i \in DOMAIN docs |->
        [text |-> SourceText(docs[i].text),
         filename |-> docs[i].metadata.filename,
         chunk_id |-> docs[i].metadata.chunk_id]]

\* RAGPipeline._generate_with_ollama: rag_pipeline.py:110-135
GenerateWithOllama(outcome) ==
    IF outcome = "ok" THEN <<"generated answer">>
    ELSE IF outcome \in {"network_error", "timeout"}
    THEN <<"Error connecting to Ollama: ", ErrorText(outcome),
           ". Make sure Ollama is running.">>
    ELSE <<"Error generating answer: ", ErrorText(outcome)>>

\* RAGPipeline._generate_with_openai: rag_pipeline.py:137-171
GenerateWithOpenAI(outcome) ==
    IF outcome = "ok" THEN <<"generated answer">>
    ELSE <<"Error generating answer with OpenAI: ", ErrorText(outcome)>>

\* RAGPipeline._generate_with_groq: rag_pipeline.py:173-211
GenerateWithGroq(outcome) ==
    IF outcome = "ok" THEN <<"generated answer">>
    ELSE <<"Error generating answer with Groq: ", ErrorText(outcome)>>

\* a dispatcher that falls over to Ollama when the configured backend fails:
\* differs from lines 90-97
GenerateWithLLM_Failover(provider, outcome) ==
    IF provider \in {"openai", "groq"} /\ outcome # "ok"
    THEN [answer |-> GenerateWithOllama(outcome), calls |-> <<provider, "ollama">>]
    ELSE [answer |-> GenerateWithOllama(outcome), calls |-> <<provider>>]

\* RAGPipeline._generate_with_llm: rag_pipeline.py:76-97; returns the answer
\* and the backends it called
GenerateWithLLM(provider, outcome) ==
    IF provider = "ollama"
    THEN [answer |-> GenerateWithOllama(outcome), calls |-> <<"ollama">>]
    ELSE IF provider = "openai"
    THEN [answer |-> GenerateWithOpenAI(outcome), calls |-> <<"openai">>]
    ELSE IF provider = "groq"
    THEN [answer |-> GenerateWithGroq(outcome), calls |-> <<"groq">>]
    ELSE [answer |-> <<"LLM provider not configured correctly.">>, calls |-> <<>>]

\* generate_answer without the `if not retrieved_docs` return: differs from
\* lines 31-37
GenerateAnswer_NoShortCircuit(retrieved_docs, provider, outcome) ==
    LET g == GenerateWithLLM(provider, outcome)
    IN  [answer |-> g.answer, sources |-> FormatSources(retrieved_docs),
         context |-> PrepareContext(retrieved_docs), calls |-> g.calls]

\* RAGPipeline.generate_answer: rag_pipeline.py:19-58; `context` is the
\* context string handed to the generator, `calls` the backends called
GenerateAnswer(retrieved_docs, provider, outcome) ==
    IF retrieved_docs = <<>>
    THEN [answer |-> <<"I don't have any documents to answer this question. Please upload some documents first.">>,
          sources |-> <<>>, context |-> <<>>, calls |-> <<>>]
    ELSE LET g == GenerateWithLLM(provider, outcome)
         IN  [answer |-> g.answer, sources |-> FormatSources(retrieved_docs),
              context |-> PrepareContext(retrieved_docs), calls |-> g.calls]

\* main.query_documents: main.py:187-208
QueryMain(question, outcome) ==
    /\ server = "main"
    /\ pre' = Store
    /\ IF Strip(question) = <<>>
       THEN /\ op' = [name |-> "query", question |-> question, hits |-> <<>>,
                      context |-> <<>>, outcome |-> "not_called"]
            /\ resp' = [status |-> 400]
       ELSE \E retrieved_docs \in VecSearch(collection, 3) :
               LET result == GenerateAnswer(retrieved_docs, llm_provider, outcome)
               IN  /\ op' = [name |-> "query", question |-> question,
                             hits |-> retrieved_docs,
                             context |-> result.context,
                             outcome |-> IF result.calls = <<>> THEN "not_called"
                                         ELSE outcome]
                   /\ resp' = [status |-> 200, answer |-> result.answer,
                               sources |-> result.sources, calls |-> result.calls]
    /\ UNCHANGED <<server, llm_provider, client, collection, documents, uploads, chunkVars, inflight>>

\* main_ephemeral.query: main_ephemeral.py:149-174
QueryEph(question, outcome) ==
    /\ server = "main_ephemeral"
    /\ pre' = Store
    /\ LET q == Strip(question)
           hits == EphSearch(documents, q, 3)
       IN  IF q = <<>>
           THEN /\ op' = [name |-> "query", question |-> question, hits |-> <<>>,
                          context |-> <<>>, outcome |-> "not_called"]
                /\ resp' = [status |-> 400]
           ELSE IF hits = <<>>
           THEN /\ op' = [name |-> "query", question |-> question, hits |-> hits,
                          context |-> <<>>, outcome |-> "not_called"]
                /\ resp' = [status |-> 200,
                            answer |-> <<"No documents indexed. Upload docs first.">>,
                            sources |-> <<>>, calls |-> <<>>]
           ELSE IF client = "None"
           THEN /\ op' = [name |-> "query", question |-> question, hits |-> hits,
                          context |-> PrepareContext(hits),
                          outcome |-> "client_missing"]
                /\ resp' = [status |-> 500, calls |-> <<>>]
           ELSE /\ op' = [name |-> "query", question |-> question, hits |-> hits,
                          context |-> PrepareContext(hits),
                          outcome |-> outcome]
                /\ resp' = [status |-> 200,
                            answer |-> IF outcome = "ok" THEN <<"generated answer">>
                                       ELSE <<"Generation error: ", ErrorText(outcome)>>,
                            sources |-> FormatSources(hits),
                            calls |-> <<"groq">>]
    /\ UNCHANGED <<server, llm_provider, client, collection, documents, uploads, chunkVars, inflight>>

\* the questions asked: the search queries and a blank one
Questions == Queries \cup { <<" ">> }

\* Store contents a query can meet: what up to two uploads leave behind.
\* Chunk i of a document carries the i-th text of the pool, in rotation.
PoolSeq == << <<"A", " ", "b">>, <<"b">> >>
QueryChunkLists ==
    { [i \in 1..n |-> ChunkOf(i, PoolSeq[((i - 1) % Len(PoolSeq)) + 1])] : n \in 0..MaxChunks }
QueryUploads ==
    UNION { [1..n -> Filenames \X QueryChunkLists] : n \in 0..Cardinality(Filenames) }

RECURSIVE EphAfter(_)
EphAfter(ups) ==
    IF ups = <<>> THEN <<>>
    ELSE EphAddDocuments(EphAfter(SubSeq(ups, 1, Len(ups) - 1)),
                         ups[Len(ups)][2], ups[Len(ups)][1])

RECURSIVE VecAfter(_)
VecAfter(ups) ==
    IF ups = <<>> THEN {}
    ELSE VecAddDocuments(VecAfter(SubSeq(ups, 1, Len(ups) - 1)),
                         ups[Len(ups)][2], ups[Len(ups)][1]).collection

InitQuery ==
    /\ ChunkIdle
    /\ \E ups \in QueryUploads :
          \/ /\ server = "main"
             /\ llm_provider \in Providers
             /\ client = "None"
             /\ collection = VecAfter(ups)
             /\ documents = <<>>
          \/ /\ server = "main_ephemeral"
             /\ llm_provider = "groq"
             /\ client \in {"ready", "None"}
             /\ collection = {}
             /\ documents = EphAfter(ups)
    /\ uploads = {}
    /\ op = [name |-> "none"]
    /\ pre = Store
    /\ resp = [status |-> 0]
    /\ inflight = <<>>

\* One query is examined per behaviour: a query leaves the store as it is, so
\* a second query would meet the same store and configuration again.
NextQuery ==
    \/ \E q \in Questions, outcome \in BackendOutcomes :
          op.name = "none" /\ QueryMain(q, outcome)
    \/ \E q \in Questions, outcome \in BackendOutcomes :
          op.name = "none" /\ QueryEph(q, outcome)

SpecQuery == InitQuery /\ [][NextQuery]_vars

-----------------------------------------------------------------------------
(* What a client observes of the store `st` of the running server.         *)

\* GET /docs (main.py:211-226), GET /documents (main_ephemeral.py:186-188)
ListDocuments(st) ==
    IF server = "main" THEN VecListDocuments(st) ELSE EphListDocuments(st)

\* GET /stats (main.py:229-245, main_ephemeral.py:191-198)
Stats(st) ==
    IF server = "main"
    THEN [total_documents |-> VecStats(st).total_documents,
          total_chunks |-> VecStats(st).total_chunks]
    ELSE EphStats(st)

\* the chunks indexed under filename f, as (chunk_id, text) pairs
IndexedFor(st, f) ==
    IF server = "main"
    THEN {[chunk_id |-> r.metadata.chunk_id, text |-> r.document] :
            r \in CollectionGetWhere(st, f)}
    ELSE IF f \in Keys(st)
         THEN {[chunk_id |-> DictGet(st, f)[i].chunk_id, text |-> DictGet(st, f)[i].text] :
                 i \in DOMAIN DictGet(st, f)}
         ELSE {}

\* the filenames with an entry in the index
IndexedFilenames(st) ==
    IF server = "main" THEN {r.metadata.filename : r \in st} ELSE Keys(st)

-----------------------------------------------------------------------------
(* Claims about the retrievers, checked under Spec.                        *)

Range(seq) == {seq[i] : i \in DOMAIN seq}
AllFilenames == Filenames \cup BadFilenames

\* C2: add is idempotent per filename: once the upload path has called
\* add(chunks, f) and it returned, exactly `chunks` is indexed for f, whatever
\* was indexed for f before, and total_chunks counts only `chunks` for f.
C2_AddReplacesChunkSet ==
    (op.name = "upload" /\ op.added /\ resp.status = 200) =>
        /\ IndexedFor(Store, op.filename) =
              {[chunk_id |-> op.chunks[i].chunk_id, text |-> op.chunks[i].text] :
                  i \in DOMAIN op.chunks}
        /\ Stats(Store).total_chunks =
              Stats(pre).total_chunks - Cardinality(IndexedFor(pre, op.filename))
                  + Len(op.chunks)

\* C7: deleting a filename f that is indexed with n chunks removes f from
\* list_documents(), lowers total_chunks by exactly n, and leaves the chunk
\* sets of all other filenames as they were.
C7_DeleteRemovesDocument ==
    (op.name = "delete" /\ op.filename \in Range(ListDocuments(pre))) =>
        /\ op.filename \notin Range(ListDocuments(Store))
        /\ Stats(Store).total_chunks =
              Stats(pre).total_chunks - Cardinality(IndexedFor(pre, op.filename))
        /\ \A g \in AllFilenames \ {op.filename} :
              /\ IndexedFor(Store, g) = IndexedFor(pre, g)
              /\ (g \in Range(ListDocuments(Store))) = (g \in Range(ListDocuments(pre)))

\* a document with two chunks was deleted while another document stayed
C7_Witness ==
    /\ op.name = "delete"
    /\ op.filename \in Range(ListDocuments(pre))
    /\ Cardinality(IndexedFor(pre, op.filename)) = 2
    /\ \E g \in Filenames \ {op.filename} : IndexedFor(Store, g) # {}

\* C8: deleting a filename that is not indexed is a no-op and not an error:
\* index contents, list_documents() and stats() are what they were.
C8_DeleteMissingIsNoOp ==
    (op.name = "delete" /\ op.filename \notin Range(ListDocuments(pre))) =>
        /\ resp.status = 200
        /\ Store = pre
        /\ ListDocuments(Store) = ListDocuments(pre)
        /\ Stats(Store) = Stats(pre)

\* a filename that is not indexed was deleted from a non-empty index
C8_Witness ==
    /\ op.name = "delete"
    /\ op.filename \notin Range(ListDocuments(pre))
    /\ Stats(pre).total_chunks > 0

\* C9: list_documents() returns every indexed filename exactly once, in
\* lexicographically sorted order (stated for indexes in which every
\* filename owns at least one chunk).
C9_ListSortedDistinct ==
    LET l == ListDocuments(Store)
    IN  (\A f \in IndexedFilenames(Store) : IndexedFor(Store, f) # {}) =>
            /\ Range(l) = IndexedFilenames(Store)
            /\ \A i, j \in DOMAIN l : i < j => StrLess(l[i], l[j])

\* C10: lexical search ranking. A chunk's score is 10 for a substring match of
\* the lower-cased query in the lower-cased text, plus the number of distinct
\* query words that are words of the chunk; search returns chunks of positive
\* score only, the top_k best of them, by descending score, equal scores in
\* insertion order (document insertion order, then chunk order).
RankScore(query, txt) ==
    (IF Contains(Lower(txt), Lower(query)) THEN 10 ELSE 0)
        + Cardinality({w \in Words(Lower(query)) : w \in Words(Lower(txt))})
ChunkPositions(d) == {p \in (DOMAIN d) \X (1..MaxChunks + 1) : p[2] \in DOMAIN d[p[1]].chunks}
ChunkAt(d, p) == d[p[1]].chunks[p[2]]
Earlier(p, q) == p[1] < q[1] \/ (p[1] = q[1] /\ p[2] < q[2])
HitPosition(d, h) ==
    CHOOSE p \in ChunkPositions(d) :
        /\ d[p[1]].filename = h.metadata.filename
        /\ ChunkAt(d, p).chunk_id = h.metadata.chunk_id
RanksBefore(d, q, p1, p2) ==
    \/ RankScore(q, ChunkAt(d, p1).text) > RankScore(q, ChunkAt(d, p2).text)
    \/ /\ RankScore(q, ChunkAt(d, p1).text) = RankScore(q, ChunkAt(d, p2).text)
       /\ Earlier(p1, p2)
C10_LexicalRanking ==
    op.name = "search" =>
        LET d == pre
            hits == resp.hits
            q == op.query
            positive == {p \in ChunkPositions(d) : RankScore(q, ChunkAt(d, p).text) > 0}
            returned == {HitPosition(d, hits[i]) : i \in DOMAIN hits}
        IN  /\ Len(hits) = Min(op.top_k, Cardinality(positive))
            /\ \A i \in DOMAIN hits :
                  /\ \E p \in positive :
                        /\ d[p[1]].filename = hits[i].metadata.filename
                        /\ ChunkAt(d, p).chunk_id = hits[i].metadata.chunk_id
                        /\ ChunkAt(d, p).text = hits[i].text
                  /\ hits[i].score = RankScore(q, hits[i].text)
            /\ \A i, j \in DOMAIN hits :
                  i < j => RanksBefore(d, q, HitPosition(d, hits[i]), HitPosition(d, hits[j]))
            /\ \A p \in positive \ returned, r \in returned : RanksBefore(d, q, r, p)

\* a search whose result was cut to top_k, holds two hits of equal score and
\* puts a later-inserted chunk of higher score first
C10_Witness ==
    /\ op.name = "search"
    /\ Len(resp.hits) >= 2
    /\ \E i \in DOMAIN resp.hits : i > 1 /\ resp.hits[i].score = resp.hits[i - 1].score
    /\ Cardinality({p \in ChunkPositions(pre) :
                      RankScore(op.query, ChunkAt(pre, p).text) > 0}) > Len(resp.hits)
    /\ \E p \in ChunkPositions(pre) :
          /\ Earlier(p, HitPosition(pre, resp.hits[1]))
          /\ RankScore(op.query, ChunkAt(pre, p).text) > 0

-----------------------------------------------------------------------------
(* Claims about the query path, checked under SpecQuery.                   *)

ErrorPrefixes ==
    {"Error connecting to Ollama: ", "Error generating answer: ",
     "Error generating answer with OpenAI: ", "Error generating answer with Groq: ",
     "Generation error: "}

\* C3: when retrieval returned at least one hit and the generation backend
\* fails (network error, timeout, missing or unusable client, bad response),
\* the query does not raise: it returns a non-empty answer carrying an error
\* indicator, and a non-empty sources list that reflects the hits.
C3_BackendFailureDegradesInBand ==
    (op.name = "query" /\ Len(op.hits) > 0 /\ op.outcome \notin {"ok", "not_called"}) =>
        /\ resp.status = 200
        /\ resp.answer # <<>>
        /\ resp.answer[1] \in ErrorPrefixes
        /\ Len(resp.sources) = Len(op.hits)
        /\ \A i \in DOMAIN op.hits :
              /\ resp.sources[i].filename = op.hits[i].metadata.filename
              /\ resp.sources[i].chunk_id = op.hits[i].metadata.chunk_id

\* C3 restricted to RAGPipeline.generate_answer behind main.py
C3_MainDegradesInBand == server = "main" => C3_BackendFailureDegradesInBand

\* the index holds no chunk
EmptyIndex == Stats(Store).total_chunks = 0

\* the fixed answer of the running server when there is nothing to answer from
NoDocumentsAnswer ==
    IF server = "main"
    THEN <<"I don't have any documents to answer this question. Please upload some documents first.">>
    ELSE <<"No documents indexed. Upload docs first.">>

\* a query that reached retrieval: its question is not blank
Retrieved == op.name = "query" /\ Strip(op.question) # <<>>

\* C11: when retrieval returns no hits, which includes every query against an
\* empty index, the answer is the fixed "no documents" message with an empty
\* sources list, and no completion backend is called.
C11_NoHitsSkipsGeneration ==
    /\ (Retrieved /\ EmptyIndex) => op.hits = <<>>
    /\ (Retrieved /\ op.hits = <<>>) =>
          /\ resp.status = 200
          /\ resp.answer = NoDocumentsAnswer
          /\ resp.sources = <<>>
          /\ resp.calls = <<>>
          /\ op.outcome = "not_called"

\* a query that matches nothing in an index that holds chunks, and a query
\* against an empty index, both answered
C11_Witness ==
    /\ Retrieved
    /\ op.hits = <<>>
    /\ resp.status = 200
    /\ resp.answer = NoDocumentsAnswer
    /\ \/ server = "main_ephemeral" /\ ~EmptyIndex
       \/ server = "main" /\ EmptyIndex

\* the backend the running server is configured to use
ConfiguredBackend == IF server = "main" THEN llm_provider ELSE "groq"

\* C12: no retry and no failover: one answer operation makes at most one
\* completion-backend call, to the configured backend only; after that call
\* failed no further call follows, to the same or to any other backend.
C12_NoRetryNoFailover ==
    Retrieved =>
        /\ Len(resp.calls) <= 1
        /\ \A i \in DOMAIN resp.calls : resp.calls[i] = ConfiguredBackend
        /\ op.outcome \in (BackendOutcomes \ {"ok"}) => resp.calls = <<ConfiguredBackend>>

\* a query with hits whose one call to the configured backend failed
C12_Witness ==
    /\ Retrieved
    /\ Len(op.hits) > 0
    /\ op.outcome \in {"network_error", "timeout"}
    /\ resp.calls = <<ConfiguredBackend>>
    /\ resp.answer[1] \in ErrorPrefixes

\* the block the context carries for the i-th hit: the 1-based index i and
\* the filename of the hit as its label, then the text of the hit
LabelledBlock(i, hit) ==
    <<"[Source ", ToString(i), " from ">> \o hit.metadata.filename \o <<"]:", "\n">>
        \o hit.text

RECURSIVE BlockOffset(_, _)
\* where block i begins in a context made of the blocks of h, two line
\* feeds (a blank line) between neighbours
BlockOffset(h, i) ==
    IF i = 1 THEN 0
    ELSE BlockOffset(h, i - 1) + Len(LabelledBlock(i - 1, h[i - 1])) + 2

\* C15: context assembly preserves retrieval order: for hits h1..hn the
\* context is exactly n blocks joined by a blank line, block i labelled with
\* the 1-based index i and the filename of hi and carrying the text of hi;
\* no hit is re-sorted, dropped or duplicated; no hits give the empty string.
C15_ContextPreservesOrder ==
    Retrieved =>
        LET h == op.hits
            n == Len(h)
            c == op.context
        IN  /\ n = 0 => c = <<>>
            /\ n > 0 => Len(c) = BlockOffset(h, n) + Len(LabelledBlock(n, h[n]))
            /\ \A i \in 1..n :
                  LET at == BlockOffset(h, i)
                      b  == LabelledBlock(i, h[i])
                  IN  /\ SubSeq(c, at + 1, at + Len(b)) = b
                      /\ i < n => SubSeq(c, at + Len(b) + 1, at + Len(b) + 2) = <<"\n", "\n">>

\* three hits from two files, the later file first
C15_Witness ==
    /\ Retrieved
    /\ Len(op.hits) = 3
    /\ op.hits[1].metadata.filename # op.hits[2].metadata.filename
    /\ op.hits[1].metadata.chunk_id > op.hits[3].metadata.chunk_id
    /\ op.context # <<>>

-----------------------------------------------------------------------------
(* Claims about uploads and the store as a whole, checked under Spec.      *)

\* the extensions the upload contract accepts
SupportedExtensions == {".pdf", ".txt", ".docx"}

\* the extension of filename f, from its last dot on, as one string
RECURSIVE Concat(_)
Concat(cs) == IF cs = <<>> THEN "" ELSE Head(cs) \o Concat(Tail(cs))
ExtensionOf(f) ==
    LET dots == {i \in DOMAIN f : f[i] = "."}
    IN  IF dots = {} THEN ""
        ELSE Concat(SubSeq(f, CHOOSE i \in dots : \A k \in dots : i >= k, Len(f)))

\* C14: an upload whose extension is not .pdf, .txt or .docx is rejected with
\* an error before any processing: nothing is extracted or chunked, nothing
\* is written to the upload directory, and the index, list_documents() and
\* stats() are what they were before the request.
C14_UnsupportedUploadRejected ==
    [][ (op'.name = "upload" /\ ExtensionOf(op'.filename) \notin SupportedExtensions) =>
            /\ resp'.status = 400
            /\ ~op'.processed
            /\ ~op'.added
            /\ uploads' = uploads
            /\ collection' = collection
            /\ documents' = documents
            /\ ListDocuments(Store)' = ListDocuments(Store)
            /\ Stats(Store)' = Stats(Store) ]_vars

\* an unsupported upload was rejected while the index held chunks
C14_Witness ==
    /\ op.name = "upload"
    /\ ExtensionOf(op.filename) \notin SupportedExtensions
    /\ resp.status = 400
    /\ Store = pre
    /\ Stats(Store).total_chunks > 0

RECURSIVE ChunkCount(_, _)
\* the number of chunks indexed in st under the filenames of the list fs
ChunkCount(st, fs) ==
    IF fs = <<>> THEN 0
    ELSE Cardinality(IndexedFor(st, Head(fs))) + ChunkCount(st, Tail(fs))

\* C20: after any sequence of uploads, deletes and clears, every listed
\* filename owns at least one indexed chunk, total_documents is the number of
\* listed filenames and total_chunks the sum of their chunk counts; uploading
\* a document with zero chunks does not create a listed document.
C20_StoreConsistency ==
    /\ \A f \in Range(ListDocuments(Store)) : IndexedFor(Store, f) # {}
    /\ Stats(Store).total_documents = Len(ListDocuments(Store))
    /\ Stats(Store).total_chunks = ChunkCount(Store, ListDocuments(Store))
    /\ (op.name = "upload" /\ op.chunks = <<>>
            /\ op.filename \notin Range(ListDocuments(pre))) =>
          op.filename \notin Range(ListDocuments(Store))

\* C20 restricted to the VectorStore behind main.py
C20_MainStoreConsistency == server = "main" => C20_StoreConsistency

-----------------------------------------------------------------------------
(* Concurrent requests. Both servers run their handlers as coroutines on   *)
(* one event loop (uvicorn.run, one process): a handler runs without       *)
(* interruption from one await to the next. The handlers of main.py hold   *)
(* no await; upload_document of main_ephemeral.py awaits the extraction of *)
(* the text (file.read) and then chunks and stores without a further await.*)

\* the chunk lists of the concurrent uploads: chunk i carries the (i+1)-th
\* text of the pool, in rotation, so they differ from the lists indexed before
ConcChunkLists ==
    { [i \in 1..n |-> ChunkOf(i, PoolSeq[(i % Len(PoolSeq)) + 1])] : n \in 0..MaxChunks }

\* a request as the server received it
ConcRequests ==
    { [kind |-> "upload", filename |-> f, chunks |-> c, pc |-> "received", status |-> 0] :
        f \in Filenames, c \in ConcChunkLists }
    \cup { [kind |-> "delete", filename |-> f, chunks |-> <<>>, pc |-> "received",
             status |-> 0] : f \in Filenames }

\* what was uploaded before the concurrent requests arrive: at most one file
ConcPrior == {ups \in QueryUploads : Len(ups) <= 1}

InitConc ==
    /\ ChunkIdle
    /\ \E ups \in ConcPrior :
          \/ /\ server = "main"
             /\ collection = VecAfter(ups)
             /\ documents = <<>>
             /\ uploads = {r.metadata.filename : r \in VecAfter(ups)}
          \/ /\ server = "main_ephemeral"
             /\ collection = {}
             /\ documents = EphAfter(ups)
             /\ uploads = {}
    /\ llm_provider = "groq"
    /\ client = "ready"
    /\ inflight \in [1..MaxRequests -> ConcRequests]
    /\ op = [name |-> "concurrent", order |-> <<>>]
    /\ pre = Store
    /\ resp = [status |-> 0]

\* request t returns with the given status
Finish(t, status) == [inflight EXCEPT ![t].pc = "done", ![t].status = status]

\* main.upload_document (main.py:129-184), served for request t in one piece
ConcUploadMain(t) ==
    /\ server = "main"
    /\ inflight[t].kind = "upload"
    /\ inflight[t].pc = "received"
    /\ LET f == inflight[t].filename
           r == VecAddDocuments(collection, inflight[t].chunks, f)
       IN  /\ collection' = r.collection
           /\ uploads' = IF r.raised THEN uploads \ {f} ELSE uploads \cup {f}
           /\ inflight' = Finish(t, IF r.raised THEN 500 ELSE 200)
    /\ op' = [op EXCEPT !.order = Append(@, t)]
    /\ UNCHANGED <<server, llm_provider, client, documents, pre, resp, chunkVars>>

\* main.delete_document (main.py:248-270), served for request t in one piece
ConcDeleteMain(t) ==
    /\ server = "main"
    /\ inflight[t].kind = "delete"
    /\ inflight[t].pc = "received"
    /\ LET f == inflight[t].filename
           r == VecDeleteDocument(collection, f)
       IN  /\ collection' = r.collection
           /\ uploads' = IF r.raised THEN uploads ELSE uploads \ {f}
           /\ inflight' = Finish(t, IF r.raised THEN 500 ELSE 200)
    /\ op' = [op EXCEPT !.order = Append(@, t)]
    /\ UNCHANGED <<server, llm_provider, client, documents, pre, resp, chunkVars>>

\* main_ephemeral.upload_document up to its await: main_ephemeral.py:136-138
\* with extract_text_from_upload (line 96); other requests may run here
ConcExtractEph(t) ==
    /\ server = "main_ephemeral"
    /\ inflight[t].kind = "upload"
    /\ inflight[t].pc = "received"
    /\ inflight' = [inflight EXCEPT ![t].pc = "extracted"]
    /\ UNCHANGED <<server, llm_provider, client, collection, documents, uploads, op, pre,
                   resp, chunkVars>>

\* main_ephemeral.upload_document after the await: main_ephemeral.py:139-142
ConcUploadEph(t) ==
    /\ server = "main_ephemeral"
    /\ inflight[t].kind = "upload"
    /\ inflight[t].pc = "extracted"
    /\ documents' = EphAddDocuments(documents, inflight[t].chunks, inflight[t].filename)
    /\ inflight' = Finish(t, 200)
    /\ op' = [op EXCEPT !.order = Append(@, t)]
    /\ UNCHANGED <<server, llm_provider, client, collection, uploads, pre, resp, chunkVars>>

\* main_ephemeral.delete_doc (main_ephemeral.py:177-183), in one piece
ConcDeleteEph(t) ==
    /\ server = "main_ephemeral"
    /\ inflight[t].kind = "delete"
    /\ inflight[t].pc = "received"
    /\ LET r == EphDeleteDocument(documents, inflight[t].filename)
       IN  /\ documents' = r.documents
           /\ inflight' = Finish(t, IF r.raised THEN 500 ELSE 200)
    /\ op' = [op EXCEPT !.order = Append(@, t)]
    /\ UNCHANGED <<server, llm_provider, client, collection, uploads, pre, resp, chunkVars>>

NextConc ==
    \/ \E t \in DOMAIN inflight : ConcUploadMain(t)
    \/ \E t \in DOMAIN inflight : ConcDeleteMain(t)
    \/ \E t \in DOMAIN inflight : ConcExtractEph(t)
    \/ \E t \in DOMAIN inflight : ConcUploadEph(t)
    \/ \E t \in DOMAIN inflight : ConcDeleteEph(t)

SpecConc == InitConc /\ [][NextConc]_vars

-----------------------------------------------------------------------------
(* Claims about concurrent requests, checked under SpecConc.               *)

\* the store after request r alone was served on store st
ServedAlone(st, r) ==
    IF server = "main"
    THEN IF r.kind = "upload" THEN VecAddDocuments(st, r.chunks, r.filename).collection
         ELSE VecDeleteDocument(st, r.filename).collection
    ELSE IF r.kind = "upload" THEN EphAddDocuments(st, r.chunks, r.filename)
         ELSE EphDeleteDocument(st, r.filename).documents

RECURSIVE SerialResult(_, _, _)
\* the store after the requests reqs were served one after the other, in the
\* order given, starting from store st
SerialResult(st, reqs, order) ==
    IF order = <<>> THEN st
    ELSE SerialResult(ServedAlone(st, reqs[Head(order)]), reqs, Tail(order))

\* the serial orders of the requests in flight
SerialOrders ==
    {o \in [DOMAIN inflight -> DOMAIN inflight] :
        \A i, j \in DOMAIN inflight : i # j => o[i] # o[j]}

\* every request has been answered
AllDone == inflight # <<>> /\ \A t \in DOMAIN inflight : inflight[t].pc = "done"

\* the requests of the given kind for filename f
RequestsFor(f, kind) ==
    {t \in DOMAIN inflight : inflight[t].filename = f /\ inflight[t].kind = kind}

\* a chunk list as a set of (chunk_id, text) pairs
ChunkSet(chks) == {[chunk_id |-> chks[i].chunk_id, text |-> chks[i].text] : i \in DOMAIN chks}

\* the final store is the result of some serial order of the requests
C13_Serializable ==
    AllDone => \E o \in SerialOrders : Store = SerialResult(pre, inflight, o)

\* a filename that one upload and at least one delete were about holds the
\* full new chunk set or nothing
C13_AddDeleteSameFilename ==
    AllDone =>
        \A f \in Filenames, t \in DOMAIN inflight :
            (RequestsFor(f, "upload") = {t} /\ RequestsFor(f, "delete") # {}) =>
                IndexedFor(Store, f) \in {ChunkSet(inflight[t].chunks), {}}

\* C13: under any interleaving of concurrent upload and delete requests the
\* final index equals the result of some serial order of the requests: a
\* filename that exactly one of the requests, a successful upload, was about
\* is indexed with that upload's complete chunk set, and a filename that one
\* upload and a delete were about holds the full new chunk set or nothing.
C13_ConcurrentRequestsSerialize ==
    /\ C13_Serializable
    /\ C13_AddDeleteSameFilename
    /\ AllDone =>
          \A f \in Filenames, t \in DOMAIN inflight :
              (RequestsFor(f, "upload") = {t} /\ RequestsFor(f, "delete") = {}
                  /\ inflight[t].status = 200) =>
                  IndexedFor(Store, f) = ChunkSet(inflight[t].chunks)

\* C13 restricted to the EphemeralStore behind main_ephemeral.py
C13_EphConcurrentRequestsSerialize ==
    server = "main_ephemeral" => C13_ConcurrentRequestsSerialize

====
